---- MODULE Spec2Model ----
(***************************************************************************)
(* A model of righthand: the listening/dispatch controller loop            *)
(* (runMainLoop, handleEvents, manageListeningState, handleText) and the   *)
(* directive replayer (keyTapPattern, extractModifiersAndKeyFromMatch,     *)
(* simulateTyping).                                                        *)
(*                                                                         *)
(* Strings are sequences of one-character strings, so that the byte        *)
(* indices of the Go code (match[0], match[1], lastIndex) are indices of   *)
(* the sequence, shifted by one (Go counts from 0, TLA+ from 1).           *)
(***************************************************************************)
EXTENDS Naturals, Integers, Sequences, FiniteSets, TLC

\* ------------------------------------------------------------------ bounds

\* The number of hotkey chords the user presses in a run.
MaxToggles == 3

\* The number of audio chunks pulled successfully in a run.
MaxChunks == 2

\* The number of programs in the configuration.
MaxPrograms == 2

\* ------------------------------------------------------- program constants

\* make(chan struct{}, 1): the capacity of app.listeningToggle.
ToggleCap == 1

\* make(chan cocoa.NSEvent, 64): the capacity of the events channel.
EventsCap == 64

VARIABLES
    listening,          \* runMainLoop: var listening bool
    listeningTimeout,   \* runMainLoop: the channel of time.After
    audioBuffer,        \* runMainLoop: var audioBuffer []float32
    toggleChan,         \* app.listeningToggle: the signals it buffers
    loopPc,             \* where runMainLoop stands
    events,             \* chords waiting in handleEvents' events channel
    handlerPc,          \* where handleEvents stands
    tasks,              \* per completed cycle: its transcription and dispatch
    pulled,             \* chunks pulled so far (the next chunk's number)
    handoff,            \* history: the buffer given to the last Transcribe
    pressed,            \* history: chords pressed so far
    consumed,           \* history: signals received by the loop so far
    consumedUser,       \* history: of these, the chords' signals
    pressedAtBusy,      \* history: pressed, when the last Transcribe began
    bornBusy,           \* history: chords pressed during the last Transcribe
    busyHonoured,       \* history: of these, the ones the loop has received
    bufInst,            \* the backing array of audioBuffer (its number)
    handoffInst,        \* history: the backing array of the last handoff
    wavReaders,         \* the backing arrays the running SaveWAV goroutines read
    timerCycle,         \* history: the cycle listeningTimeout was armed for
    pulledAtEntry,      \* history: pulled, at the last entry into Listening
    waCall,             \* history: the last call of app.wa that returned to
                        \* the loop, and whether it returned an error
    calls,              \* history, per cycle: what Transcribe and llm.Call
                        \* returned, the handleText goroutines started and
                        \* the calls of simulateTyping
    text,               \* simulateTyping: its argument
    ops,                \* the robotgo calls made so far, in order
    typingPc,           \* where simulateTyping stands
    cfgPrograms,        \* handleText: app.cfg.Programs
    activeApp,          \* handleText: the name of the frontmost application
    transcript,         \* handleText: its argument text
    messages,           \* handleText: the messages it passes to llm.Call
    mainPc,             \* where main stands
    cfg,                \* main: the configuration loadConfig returned
    loadErr,            \* main: loadConfig returned an error
    newAppErr,          \* main: the step of newApp that failed, if one did
    dumpWAV             \* main: cfg.DumpWAVFile, the flag -dump-wav

ctlVars == <<listening, listeningTimeout, audioBuffer, toggleChan, loopPc,
             events, handlerPc, tasks, pulled, handoff, pressed, consumed,
             consumedUser, pressedAtBusy, bornBusy, busyHonoured, calls,
             waCall, timerCycle, pulledAtEntry, bufInst, handoffInst,
             wavReaders>>

typingVars == <<text, ops, typingPc>>

msgVars == <<cfgPrograms, activeApp, transcript, messages>>

mainVars == <<mainPc, cfg, loadErr, newAppErr, dumpWAV>>

vars == <<listening, listeningTimeout, audioBuffer, toggleChan, loopPc,
          events, handlerPc, tasks, pulled, handoff, pressed, consumed,
          consumedUser, pressedAtBusy, bornBusy, busyHonoured, calls, text,
          ops, typingPc, cfgPrograms, activeApp, transcript, messages,
          mainPc, cfg, loadErr, newAppErr, waCall, timerCycle,
          pulledAtEntry, bufInst, handoffInst, wavReaders, dumpWAV>>

\* ---------------------------------------------------------------- helpers

\* The signals of origin o buffered in the toggle channel.
InChan(o) == Cardinality({i \in 1..Len(toggleChan) : toggleChan[i] = o})

\* The cycles whose handleText goroutine is waiting for the language model.
InFlight == {c \in 1..Len(tasks) : tasks[c] = "llm"}

\* The signal at the head of the toggle channel is that of a chord pressed
\* while the loop was inside the last Transcribe.
HonoursBusyBorn ==
    /\ Head(toggleChan) = "user"
    /\ consumedUser + 1 > pressedAtBusy
    /\ consumedUser + 1 <= pressedAtBusy + bornBusy

\* ------------------------------------------------------- the hotkey side

\* The global monitor delivers a flags-changed event that manageListeningState
\* accepts (control key, command down, key up) into the events channel.
\* Events of any other kind are received and dropped by handleEvents and
\* change nothing.
HotkeyPress ==
    /\ pressed < MaxToggles
    /\ events < EventsCap
    /\ events' = events + 1
    /\ pressed' = pressed + 1
    /\ bornBusy' = IF loopPc = "transcribing" THEN bornBusy + 1 ELSE bornBusy
    /\ busyHonoured' = IF loopPc = "transcribing" /\ bornBusy = 0
                          THEN 0 ELSE busyHonoured
    /\ UNCHANGED <<listening, listeningTimeout, audioBuffer, toggleChan,
                   loopPc, handlerPc, tasks, pulled, handoff, consumed,
                   consumedUser, pressedAtBusy>>
    /\ UNCHANGED calls
    /\ UNCHANGED typingVars
    /\ UNCHANGED msgVars
    /\ UNCHANGED mainVars
    /\ UNCHANGED <<bufInst, handoffInst, wavReaders>>
    /\ UNCHANGED <<timerCycle, pulledAtEntry>>
    /\ UNCHANGED waCall

\* handleEvents: e := <-events, and manageListeningState reaches its send.
HandlerReceive ==
    /\ handlerPc = "recv"
    /\ events > 0
    /\ events' = events - 1
    /\ handlerPc' = "send"
    /\ UNCHANGED <<listening, listeningTimeout, audioBuffer, toggleChan,
                   loopPc, tasks, pulled, handoff, pressed, consumed,
                   consumedUser, pressedAtBusy, bornBusy, busyHonoured>>
    /\ UNCHANGED calls
    /\ UNCHANGED typingVars
    /\ UNCHANGED msgVars
    /\ UNCHANGED mainVars
    /\ UNCHANGED <<bufInst, handoffInst, wavReaders>>
    /\ UNCHANGED <<timerCycle, pulledAtEntry>>
    /\ UNCHANGED waCall

\* HandlerSend with a send that does not wait: the signal is dropped when
\* the channel is full.
HandlerSend_DropWhenFull ==
    /\ handlerPc = "send"
    /\ toggleChan' = IF Len(toggleChan) < ToggleCap
                        THEN Append(toggleChan, "user") ELSE toggleChan
    /\ handlerPc' = "recv"
    /\ UNCHANGED <<listening, listeningTimeout, audioBuffer, loopPc, events,
                   tasks, pulled, handoff, pressed, consumed, consumedUser,
                   pressedAtBusy, bornBusy, busyHonoured>>
    /\ UNCHANGED calls
    /\ UNCHANGED typingVars
    /\ UNCHANGED msgVars
    /\ UNCHANGED mainVars
    /\ UNCHANGED <<bufInst, handoffInst, wavReaders>>
    /\ UNCHANGED <<timerCycle, pulledAtEntry>>
    /\ UNCHANGED waCall

\* manageListeningState: app.listeningToggle <- struct{}{}, a send that
\* blocks while the channel is full.
HandlerSend ==
    /\ handlerPc = "send"
    /\ Len(toggleChan) < ToggleCap
    /\ toggleChan' = Append(toggleChan, "user")
    /\ handlerPc' = "recv"
    /\ UNCHANGED <<listening, listeningTimeout, audioBuffer, loopPc, events,
                   tasks, pulled, handoff, pressed, consumed, consumedUser,
                   pressedAtBusy, bornBusy, busyHonoured>>
    /\ UNCHANGED calls
    /\ UNCHANGED typingVars
    /\ UNCHANGED msgVars
    /\ UNCHANGED mainVars
    /\ UNCHANGED <<bufInst, handoffInst, wavReaders>>
    /\ UNCHANGED <<timerCycle, pulledAtEntry>>
    /\ UNCHANGED waCall

\* ------------------------------------------------------------- the timer

\* The duration of time.After elapses: its channel holds the one value it
\* will ever hold.
TimerExpire ==
    /\ listeningTimeout = "pending"
    /\ listeningTimeout' = "ready"
    /\ UNCHANGED <<listening, audioBuffer, toggleChan, loopPc, events,
                   handlerPc, tasks, pulled, handoff, pressed, consumed,
                   consumedUser, pressedAtBusy, bornBusy, busyHonoured>>
    /\ UNCHANGED calls
    /\ UNCHANGED typingVars
    /\ UNCHANGED msgVars
    /\ UNCHANGED mainVars
    /\ UNCHANGED <<bufInst, handoffInst, wavReaders>>
    /\ UNCHANGED <<timerCycle, pulledAtEntry>>
    /\ UNCHANGED waCall

\* ------------------------------------------------------- the controller

\* ToggleOn without audioBuffer = nil.
ToggleOn_KeepBuffer ==
    /\ loopPc = "select"
    /\ toggleChan # <<>>
    /\ ~listening
    /\ toggleChan' = Tail(toggleChan)
    /\ listening' = TRUE
    /\ \E err \in BOOLEAN : waCall' = [call |-> "Start", err |-> err]
    /\ listeningTimeout' = "pending"
    /\ timerCycle' = Len(calls) + 1
    /\ pulledAtEntry' = pulled
    /\ consumed' = consumed + 1
    /\ consumedUser' = consumedUser + (IF Head(toggleChan) = "user" THEN 1 ELSE 0)
    /\ busyHonoured' = busyHonoured + (IF HonoursBusyBorn THEN 1 ELSE 0)
    /\ UNCHANGED <<audioBuffer, loopPc, events, handlerPc, tasks, pulled,
                   handoff, pressed, pressedAtBusy, bornBusy>>
    /\ UNCHANGED calls
    /\ UNCHANGED typingVars
    /\ UNCHANGED msgVars
    /\ UNCHANGED mainVars
    /\ UNCHANGED <<bufInst, handoffInst, wavReaders>>

\* ToggleOn that waits until no handleText goroutine is running.
ToggleOn_WaitsForDispatch ==
    /\ loopPc = "select"
    /\ toggleChan # <<>>
    /\ ~listening
    /\ InFlight = {}
    /\ toggleChan' = Tail(toggleChan)
    /\ listening' = TRUE
    /\ \E err \in BOOLEAN : waCall' = [call |-> "Start", err |-> err]
    /\ listeningTimeout' = "pending"
    /\ timerCycle' = Len(calls) + 1
    /\ pulledAtEntry' = pulled
    /\ audioBuffer' = <<>>
    /\ bufInst' = bufInst + 1
    /\ consumed' = consumed + 1
    /\ consumedUser' = consumedUser + (IF Head(toggleChan) = "user" THEN 1 ELSE 0)
    /\ busyHonoured' = busyHonoured + (IF HonoursBusyBorn THEN 1 ELSE 0)
    /\ UNCHANGED <<loopPc, events, handlerPc, tasks, pulled, handoff, pressed,
                   pressedAtBusy, bornBusy>>
    /\ UNCHANGED calls
    /\ UNCHANGED typingVars
    /\ UNCHANGED msgVars
    /\ UNCHANGED mainVars
    /\ UNCHANGED <<handoffInst, wavReaders>>

\* ToggleOn that gives up when app.wa.Start returns an error: the loop stays
\* Idle, with the timer and the buffer it had.
ToggleOn_GivesUpOnStartError ==
    /\ loopPc = "select"
    /\ toggleChan # <<>>
    /\ ~listening
    /\ toggleChan' = Tail(toggleChan)
    /\ \E err \in BOOLEAN :
          /\ waCall' = [call |-> "Start", err |-> err]
          /\ listening' = ~err
          /\ listeningTimeout' = IF err THEN listeningTimeout ELSE "pending"
          /\ audioBuffer' = IF err THEN audioBuffer ELSE <<>>
          /\ bufInst' = IF err THEN bufInst ELSE bufInst + 1
          /\ timerCycle' = IF err THEN timerCycle ELSE Len(calls) + 1
          /\ pulledAtEntry' = IF err THEN pulledAtEntry ELSE pulled
    /\ consumed' = consumed + 1
    /\ consumedUser' = consumedUser + (IF Head(toggleChan) = "user" THEN 1 ELSE 0)
    /\ busyHonoured' = busyHonoured + (IF HonoursBusyBorn THEN 1 ELSE 0)
    /\ UNCHANGED <<loopPc, events, handlerPc, tasks, pulled, handoff, pressed,
                   pressedAtBusy, bornBusy>>
    /\ UNCHANGED calls
    /\ UNCHANGED typingVars
    /\ UNCHANGED msgVars
    /\ UNCHANGED mainVars
    /\ UNCHANGED <<handoffInst, wavReaders>>

\* ToggleOn that arms a timer only when none has been armed yet.
ToggleOn_KeepsTimer ==
    /\ loopPc = "select"
    /\ toggleChan # <<>>
    /\ ~listening
    /\ toggleChan' = Tail(toggleChan)
    /\ listening' = TRUE
    /\ \E err \in BOOLEAN : waCall' = [call |-> "Start", err |-> err]
    /\ listeningTimeout' = IF listeningTimeout = "nil" THEN "pending"
                                                        ELSE listeningTimeout
    /\ timerCycle' = IF listeningTimeout = "nil" THEN Len(calls) + 1
                                                  ELSE timerCycle
    /\ pulledAtEntry' = pulled
    /\ audioBuffer' = <<>>
    /\ bufInst' = bufInst + 1
    /\ consumed' = consumed + 1
    /\ consumedUser' = consumedUser + (IF Head(toggleChan) = "user" THEN 1 ELSE 0)
    /\ busyHonoured' = busyHonoured + (IF HonoursBusyBorn THEN 1 ELSE 0)
    /\ UNCHANGED <<loopPc, events, handlerPc, tasks, pulled, handoff, pressed,
                   pressedAtBusy, bornBusy>>
    /\ UNCHANGED calls
    /\ UNCHANGED typingVars
    /\ UNCHANGED msgVars
    /\ UNCHANGED mainVars
    /\ UNCHANGED <<handoffInst, wavReaders>>

\* ToggleOn with audioBuffer = audioBuffer[:0] in the place of nil: the
\* buffer is emptied and keeps its backing array.
ToggleOn_ReslicesBuffer ==
    /\ loopPc = "select"
    /\ toggleChan # <<>>
    /\ ~listening
    /\ toggleChan' = Tail(toggleChan)
    /\ listening' = TRUE
    /\ \E err \in BOOLEAN : waCall' = [call |-> "Start", err |-> err]
    /\ listeningTimeout' = "pending"
    /\ timerCycle' = Len(calls) + 1
    /\ pulledAtEntry' = pulled
    /\ audioBuffer' = <<>>
    /\ consumed' = consumed + 1
    /\ consumedUser' = consumedUser + (IF Head(toggleChan) = "user" THEN 1 ELSE 0)
    /\ busyHonoured' = busyHonoured + (IF HonoursBusyBorn THEN 1 ELSE 0)
    /\ UNCHANGED <<loopPc, events, handlerPc, tasks, pulled, handoff, pressed,
                   pressedAtBusy, bornBusy>>
    /\ UNCHANGED calls
    /\ UNCHANGED typingVars
    /\ UNCHANGED msgVars
    /\ UNCHANGED mainVars
    /\ UNCHANGED <<bufInst, handoffInst, wavReaders>>

\* case <-app.listeningToggle, with listening false before: the loop is
\* then Listening, the timer is a fresh time.After, the buffer is nil and
\* the capture is started (an error of Start is logged and changes nothing).
ToggleOn ==
    /\ loopPc = "select"
    /\ toggleChan # <<>>
    /\ ~listening
    /\ toggleChan' = Tail(toggleChan)
    /\ listening' = TRUE
    /\ \E err \in BOOLEAN : waCall' = [call |-> "Start", err |-> err]
    /\ listeningTimeout' = "pending"
    /\ timerCycle' = Len(calls) + 1
    /\ pulledAtEntry' = pulled
    /\ audioBuffer' = <<>>
    /\ bufInst' = bufInst + 1
    /\ consumed' = consumed + 1
    /\ consumedUser' = consumedUser + (IF Head(toggleChan) = "user" THEN 1 ELSE 0)
    /\ busyHonoured' = busyHonoured + (IF HonoursBusyBorn THEN 1 ELSE 0)
    /\ UNCHANGED <<loopPc, events, handlerPc, tasks, pulled, handoff, pressed,
                   pressedAtBusy, bornBusy>>
    /\ UNCHANGED calls
    /\ UNCHANGED typingVars
    /\ UNCHANGED msgVars
    /\ UNCHANGED mainVars
    /\ UNCHANGED <<handoffInst, wavReaders>>

\* case <-app.listeningToggle, with listening true before: the loop is then
\* Idle, the capture is stopped (an error of Stop is logged and changes
\* nothing) and the loop calls Transcribe(audioBuffer) itself and waits for
\* it.  The timer channel is left as it is.
ToggleOff ==
    /\ loopPc = "select"
    /\ toggleChan # <<>>
    /\ listening
    /\ toggleChan' = Tail(toggleChan)
    /\ listening' = FALSE
    /\ \E err \in BOOLEAN : waCall' = [call |-> "Stop", err |-> err]
    /\ loopPc' = "transcribing"
    /\ handoff' = audioBuffer
    /\ handoffInst' = bufInst
    /\ wavReaders' = IF dumpWAV THEN wavReaders \cup {bufInst} ELSE wavReaders
    /\ tasks' = Append(tasks, "transcribing")
    /\ calls' = Append(calls, [transcribed |-> "pending", llm |-> "none",
                               started |-> 0, typed |-> 0])
    /\ consumed' = consumed + 1
    /\ consumedUser' = consumedUser + (IF Head(toggleChan) = "user" THEN 1 ELSE 0)
    /\ pressedAtBusy' = pressed
    /\ bornBusy' = 0
    /\ busyHonoured' = busyHonoured + (IF HonoursBusyBorn THEN 1 ELSE 0)
    /\ UNCHANGED <<listeningTimeout, audioBuffer, events, handlerPc, pulled,
                   pressed>>
    /\ UNCHANGED typingVars
    /\ UNCHANGED msgVars
    /\ UNCHANGED mainVars
    /\ UNCHANGED bufInst
    /\ UNCHANGED <<timerCycle, pulledAtEntry>>

\* TranscribeReturn without the test of the text: handleText is started
\* for an empty text too.
TranscribeReturn_NoTextCheck ==
    /\ loopPc = "transcribing"
    /\ \E res \in {"err", "empty", "text"} :
          /\ tasks' = [tasks EXCEPT ![Len(tasks)] =
                           IF res # "err" THEN "llm" ELSE res]
          /\ waCall' = [call |-> "Transcribe", err |-> (res = "err")]
          /\ calls' = [calls EXCEPT ![Len(calls)] =
                           [@ EXCEPT !.transcribed = res,
                                     !.llm = IF res # "err" THEN "called"
                                                            ELSE "none",
                                     !.started = IF res # "err" THEN @ + 1
                                                                ELSE @]]
    /\ loopPc' = "select"
    /\ UNCHANGED <<listening, listeningTimeout, audioBuffer, toggleChan,
                   events, handlerPc, pulled, handoff, pressed, consumed,
                   consumedUser, pressedAtBusy, bornBusy, busyHonoured>>
    /\ UNCHANGED typingVars
    /\ UNCHANGED msgVars
    /\ UNCHANGED mainVars
    /\ UNCHANGED <<bufInst, handoffInst, wavReaders>>
    /\ UNCHANGED <<timerCycle, pulledAtEntry>>

\* TranscribeReturn that starts go app.handleText twice for a text.
TranscribeReturn_StartsTwice ==
    /\ loopPc = "transcribing"
    /\ \E res \in {"err", "empty", "text"} :
          /\ tasks' = [tasks EXCEPT ![Len(tasks)] =
                           IF res = "text" THEN "llm" ELSE res]
          /\ waCall' = [call |-> "Transcribe", err |-> (res = "err")]
          /\ calls' = [calls EXCEPT ![Len(calls)] =
                           [@ EXCEPT !.transcribed = res,
                                     !.llm = IF res = "text" THEN "called"
                                                             ELSE "none",
                                     !.started = IF res = "text" THEN @ + 2
                                                                 ELSE @]]
    /\ loopPc' = "select"
    /\ UNCHANGED <<listening, listeningTimeout, audioBuffer, toggleChan,
                   events, handlerPc, pulled, handoff, pressed, consumed,
                   consumedUser, pressedAtBusy, bornBusy, busyHonoured>>
    /\ UNCHANGED typingVars
    /\ UNCHANGED msgVars
    /\ UNCHANGED mainVars
    /\ UNCHANGED <<bufInst, handoffInst, wavReaders>>
    /\ UNCHANGED <<timerCycle, pulledAtEntry>>

\* TranscribeReturn with `return` in the place of `continue`: the loop ends
\* on an error of Transcribe.
TranscribeReturn_ReturnsOnError ==
    /\ loopPc = "transcribing"
    /\ \E res \in {"err", "empty", "text"} :
          /\ tasks' = [tasks EXCEPT ![Len(tasks)] =
                           IF res = "text" THEN "llm" ELSE res]
          /\ waCall' = [call |-> "Transcribe", err |-> (res = "err")]
          /\ calls' = [calls EXCEPT ![Len(calls)] =
                           [@ EXCEPT !.transcribed = res,
                                     !.llm = IF res = "text" THEN "called"
                                                             ELSE "none",
                                     !.started = IF res = "text" THEN @ + 1
                                                                 ELSE @]]
          /\ loopPc' = IF res = "err" THEN "returned" ELSE "select"
    /\ UNCHANGED <<listening, listeningTimeout, audioBuffer, toggleChan,
                   events, handlerPc, pulled, handoff, pressed, consumed,
                   consumedUser, pressedAtBusy, bornBusy, busyHonoured>>
    /\ UNCHANGED typingVars
    /\ UNCHANGED msgVars
    /\ UNCHANGED mainVars
    /\ UNCHANGED <<bufInst, handoffInst, wavReaders>>
    /\ UNCHANGED <<timerCycle, pulledAtEntry>>

\* Transcribe returns to the loop: an error (logged, continue), an empty
\* text (nothing more), or a text, for which go app.handleText is started.
TranscribeReturn ==
    /\ loopPc = "transcribing"
    /\ \E res \in {"err", "empty", "text"} :
          /\ tasks' = [tasks EXCEPT ![Len(tasks)] =
                           IF res = "text" THEN "llm" ELSE res]
          /\ waCall' = [call |-> "Transcribe", err |-> (res = "err")]
          /\ calls' = [calls EXCEPT ![Len(calls)] =
                           [@ EXCEPT !.transcribed = res,
                                     !.llm = IF res = "text" THEN "called"
                                                             ELSE "none",
                                     !.started = IF res = "text" THEN @ + 1
                                                                 ELSE @]]
    /\ loopPc' = "select"
    /\ UNCHANGED <<listening, listeningTimeout, audioBuffer, toggleChan,
                   events, handlerPc, pulled, handoff, pressed, consumed,
                   consumedUser, pressedAtBusy, bornBusy, busyHonoured>>
    /\ UNCHANGED typingVars
    /\ UNCHANGED msgVars
    /\ UNCHANGED mainVars
    /\ UNCHANGED <<bufInst, handoffInst, wavReaders>>
    /\ UNCHANGED <<timerCycle, pulledAtEntry>>

\* TimeoutCase without "if listening": the loop sends whatever its state.
TimeoutCase_NoListeningCheck ==
    /\ loopPc = "select"
    /\ listeningTimeout = "ready"
    /\ listeningTimeout' = "drained"
    /\ loopPc' = "timerSend"
    /\ UNCHANGED <<listening, audioBuffer, toggleChan, events, handlerPc,
                   tasks, pulled, handoff, pressed, consumed, consumedUser,
                   pressedAtBusy, bornBusy, busyHonoured>>
    /\ UNCHANGED calls
    /\ UNCHANGED typingVars
    /\ UNCHANGED msgVars
    /\ UNCHANGED mainVars
    /\ UNCHANGED <<bufInst, handoffInst, wavReaders>>
    /\ UNCHANGED <<timerCycle, pulledAtEntry>>
    /\ UNCHANGED waCall

\* case <-listeningTimeout: the one value of the timer channel is received;
\* if listening, the loop reaches its own send on app.listeningToggle.
TimeoutCase ==
    /\ loopPc = "select"
    /\ listeningTimeout = "ready"
    /\ listeningTimeout' = "drained"
    /\ loopPc' = IF listening THEN "timerSend" ELSE "select"
    /\ UNCHANGED <<listening, audioBuffer, toggleChan, events, handlerPc,
                   tasks, pulled, handoff, pressed, consumed, consumedUser,
                   pressedAtBusy, bornBusy, busyHonoured>>
    /\ UNCHANGED calls
    /\ UNCHANGED typingVars
    /\ UNCHANGED msgVars
    /\ UNCHANGED mainVars
    /\ UNCHANGED <<bufInst, handoffInst, wavReaders>>
    /\ UNCHANGED <<timerCycle, pulledAtEntry>>
    /\ UNCHANGED waCall

\* app.listeningToggle <- struct{}{} in the timeout case: a send that blocks
\* while the channel is full.
TimerSend ==
    /\ loopPc = "timerSend"
    /\ Len(toggleChan) < ToggleCap
    /\ toggleChan' = Append(toggleChan, "timer")
    /\ loopPc' = "select"
    /\ UNCHANGED <<listening, listeningTimeout, audioBuffer, events,
                   handlerPc, tasks, pulled, handoff, pressed, consumed,
                   consumedUser, pressedAtBusy, bornBusy, busyHonoured>>
    /\ UNCHANGED calls
    /\ UNCHANGED typingVars
    /\ UNCHANGED msgVars
    /\ UNCHANGED mainVars
    /\ UNCHANGED <<bufInst, handoffInst, wavReaders>>
    /\ UNCHANGED <<timerCycle, pulledAtEntry>>
    /\ UNCHANGED waCall

\* Tick that drops the buffer when CollectAudioData returns an error.
Tick_DropsBufferOnError ==
    /\ loopPc = "select"
    /\ toggleChan = <<>>
    /\ listeningTimeout # "ready"
    /\ listening
    /\ \/ /\ pulled < MaxChunks
          /\ pulled' = pulled + 1
          /\ audioBuffer' = Append(audioBuffer, pulled + 1)
          /\ waCall' = [call |-> "CollectAudioData", err |-> FALSE]
       \/ /\ UNCHANGED pulled
          /\ audioBuffer' = <<>>
          /\ waCall' = [call |-> "CollectAudioData", err |-> TRUE]
    /\ UNCHANGED <<listening, listeningTimeout, toggleChan, loopPc, events,
                   handlerPc, tasks, handoff, pressed, consumed, consumedUser,
                   pressedAtBusy, bornBusy, busyHonoured>>
    /\ UNCHANGED calls
    /\ UNCHANGED typingVars
    /\ UNCHANGED msgVars
    /\ UNCHANGED mainVars
    /\ UNCHANGED <<bufInst, handoffInst, wavReaders>>
    /\ UNCHANGED <<timerCycle, pulledAtEntry>>

\* Tick that puts the chunk before the buffer.
Tick_NewestFirst ==
    /\ loopPc = "select"
    /\ toggleChan = <<>>
    /\ listeningTimeout # "ready"
    /\ listening
    /\ \/ /\ pulled < MaxChunks
          /\ pulled' = pulled + 1
          /\ audioBuffer' = <<pulled + 1>> \o audioBuffer
          /\ waCall' = [call |-> "CollectAudioData", err |-> FALSE]
       \/ /\ UNCHANGED <<pulled, audioBuffer>>
          /\ waCall' = [call |-> "CollectAudioData", err |-> TRUE]
    /\ UNCHANGED <<listening, listeningTimeout, toggleChan, loopPc, events,
                   handlerPc, tasks, handoff, pressed, consumed, consumedUser,
                   pressedAtBusy, bornBusy, busyHonoured>>
    /\ UNCHANGED calls
    /\ UNCHANGED typingVars
    /\ UNCHANGED msgVars
    /\ UNCHANGED mainVars
    /\ UNCHANGED <<bufInst, handoffInst, wavReaders>>
    /\ UNCHANGED <<timerCycle, pulledAtEntry>>

\* default: taken only when no other case of the select is ready.  When not
\* listening the loop continues (no change); when listening it pulls a chunk
\* with CollectAudioData, appends it, or logs the error and continues.
Tick ==
    /\ loopPc = "select"
    /\ toggleChan = <<>>
    /\ listeningTimeout # "ready"
    /\ listening
    /\ \/ /\ pulled < MaxChunks
          /\ pulled' = pulled + 1
          /\ audioBuffer' = Append(audioBuffer, pulled + 1)
          /\ waCall' = [call |-> "CollectAudioData", err |-> FALSE]
       \/ /\ UNCHANGED <<pulled, audioBuffer>>
          /\ waCall' = [call |-> "CollectAudioData", err |-> TRUE]
    /\ UNCHANGED <<listening, listeningTimeout, toggleChan, loopPc, events,
                   handlerPc, tasks, handoff, pressed, consumed, consumedUser,
                   pressedAtBusy, bornBusy, busyHonoured>>
    /\ UNCHANGED calls
    /\ UNCHANGED typingVars
    /\ UNCHANGED msgVars
    /\ UNCHANGED mainVars
    /\ UNCHANGED <<bufInst, handoffInst, wavReaders>>
    /\ UNCHANGED <<timerCycle, pulledAtEntry>>

\* ------------------------------------------------------------ handleText

\* LLMReturn without the return on an error: simulateTyping is called
\* whatever app.llm.Call returned.
LLMReturn_NoReturnOnError ==
    /\ \E c \in InFlight : \E ok \in BOOLEAN :
          /\ tasks' = [tasks EXCEPT ![c] = IF ok THEN "typed" ELSE "llmErr"]
          /\ calls' = [calls EXCEPT ![c] =
                           [@ EXCEPT !.llm = IF ok THEN "ok" ELSE "err",
                                     !.typed = @ + 1]]
    /\ UNCHANGED <<listening, listeningTimeout, audioBuffer, toggleChan,
                   loopPc, events, handlerPc, pulled, handoff, pressed,
                   consumed, consumedUser, pressedAtBusy, bornBusy, busyHonoured>>
    /\ UNCHANGED typingVars
    /\ UNCHANGED msgVars
    /\ UNCHANGED mainVars
    /\ UNCHANGED <<bufInst, handoffInst, wavReaders>>
    /\ UNCHANGED <<timerCycle, pulledAtEntry>>
    /\ UNCHANGED waCall

\* app.llm.Call returns in the goroutine of cycle c: an error ends the
\* dispatch, a response is passed to simulateTyping.
LLMReturn ==
    /\ \E c \in InFlight : \E ok \in BOOLEAN :
          /\ tasks' = [tasks EXCEPT ![c] = IF ok THEN "typed" ELSE "llmErr"]
          /\ calls' = [calls EXCEPT ![c] =
                           [@ EXCEPT !.llm = IF ok THEN "ok" ELSE "err",
                                     !.typed = IF ok THEN @ + 1 ELSE @]]
    /\ UNCHANGED <<listening, listeningTimeout, audioBuffer, toggleChan,
                   loopPc, events, handlerPc, pulled, handoff, pressed,
                   consumed, consumedUser, pressedAtBusy, bornBusy, busyHonoured>>
    /\ UNCHANGED typingVars
    /\ UNCHANGED msgVars
    /\ UNCHANGED mainVars
    /\ UNCHANGED <<bufInst, handoffInst, wavReaders>>
    /\ UNCHANGED <<timerCycle, pulledAtEntry>>
    /\ UNCHANGED waCall

\* app.llm.Call returns a response in the goroutine of cycle c, and
\* simulateTyping panics on it (a combo group right after another): the
\* panic of a goroutine ends the process.
SimulateTypingPanics ==
    /\ \E c \in InFlight :
          /\ tasks' = [tasks EXCEPT ![c] = "panic"]
          /\ calls' = [calls EXCEPT ![c] =
                           [@ EXCEPT !.llm = "ok", !.typed = @ + 1]]
    /\ UNCHANGED <<listening, listeningTimeout, audioBuffer, toggleChan,
                   loopPc, events, handlerPc, pulled, handoff, pressed,
                   consumed, consumedUser, pressedAtBusy, bornBusy, busyHonoured>>
    /\ UNCHANGED typingVars
    /\ UNCHANGED msgVars
    /\ UNCHANGED mainVars
    /\ UNCHANGED <<bufInst, handoffInst, wavReaders>>
    /\ UNCHANGED <<timerCycle, pulledAtEntry>>
    /\ UNCHANGED waCall

\* A goroutine has panicked: the process has ended.
ProcessDead == \E c \in 1..Len(tasks) : tasks[c] = "panic"

\* ------------------------------------------------------------- SaveWAV

\* A goroutine of wavutil.SaveWAV has written its file and ends.
SaveWAVReturn ==
    /\ \E r \in wavReaders : wavReaders' = wavReaders \ {r}
    /\ UNCHANGED <<listening, listeningTimeout, audioBuffer, toggleChan,
                   loopPc, events, handlerPc, tasks, pulled, handoff, pressed,
                   consumed, consumedUser, pressedAtBusy, bornBusy,
                   busyHonoured, calls, waCall, timerCycle, pulledAtEntry,
                   bufInst, handoffInst>>
    /\ UNCHANGED typingVars
    /\ UNCHANGED msgVars
    /\ UNCHANGED mainVars

\* ------------------------------------------------------------------ spec

InitCtl ==
    /\ listening = FALSE
    /\ listeningTimeout = "nil"
    /\ audioBuffer = <<>>
    /\ toggleChan = <<>>
    /\ loopPc = "select"
    /\ events = 0
    /\ handlerPc = "recv"
    /\ tasks = <<>>
    /\ pulled = 0
    /\ handoff = <<>>
    /\ pressed = 0
    /\ consumed = 0
    /\ consumedUser = 0
    /\ pressedAtBusy = 0
    /\ bornBusy = 0
    /\ busyHonoured = 0
    /\ calls = <<>>
    /\ waCall = [call |-> "none", err |-> FALSE]
    /\ timerCycle = 0
    /\ pulledAtEntry = 0
    /\ bufInst = 0
    /\ handoffInst = 0
    /\ wavReaders = {}

InitTypingIdle ==
    /\ text = <<>>
    /\ ops = <<>>
    /\ typingPc = "idle"

\* handleText is not running.
InitMessagesIdle ==
    /\ cfgPrograms = <<>>
    /\ activeApp = ""
    /\ transcript = ""
    /\ messages = <<>>

\* main has loaded the configuration, newApp has returned the App, and
\* app.run has started the loop and the event handler.
InitRunning ==
    /\ mainPc = "running"
    /\ cfg = "default"
    /\ loadErr = FALSE
    /\ newAppErr = "none"
    /\ dumpWAV = FALSE

Init == InitCtl /\ InitTypingIdle /\ InitMessagesIdle /\ InitRunning

Next ==
    \/ HotkeyPress
    \/ HandlerReceive
    \/ HandlerSend
    \/ TimerExpire
    \/ ToggleOn
    \/ ToggleOff
    \/ TranscribeReturn
    \/ TimeoutCase
    \/ TimerSend
    \/ Tick
    \/ LLMReturn

Spec == Init /\ [][Next]_vars

\* The loop goroutine, the handler goroutine and the dispatch goroutines are
\* scheduled, time passes, and the external calls return.  The user is not
\* obliged to press anything.
Fairness ==
    /\ WF_vars(HandlerReceive)
    /\ WF_vars(HandlerSend)
    /\ WF_vars(TimerExpire)
    /\ WF_vars(ToggleOn)
    /\ WF_vars(ToggleOff)
    /\ WF_vars(TranscribeReturn)
    /\ WF_vars(TimeoutCase)
    /\ WF_vars(TimerSend)
    /\ WF_vars(LLMReturn)

FairSpec == Init /\ [][Next]_vars /\ Fairness

\* The runs in which the language model may return a directive that
\* simulateTyping panics on; nothing runs after the panic.
NextFaulting ==
    \/ ~ProcessDead /\ HotkeyPress
    \/ ~ProcessDead /\ HandlerReceive
    \/ ~ProcessDead /\ HandlerSend
    \/ ~ProcessDead /\ TimerExpire
    \/ ~ProcessDead /\ ToggleOn
    \/ ~ProcessDead /\ ToggleOff
    \/ ~ProcessDead /\ TranscribeReturn
    \/ ~ProcessDead /\ TimeoutCase
    \/ ~ProcessDead /\ TimerSend
    \/ ~ProcessDead /\ Tick
    \/ ~ProcessDead /\ LLMReturn
    \/ ~ProcessDead /\ SimulateTypingPanics

SpecFaulting == Init /\ [][NextFaulting]_vars

\* The runs with and without the flag -dump-wav.
InitWAV ==
    /\ InitCtl
    /\ InitTypingIdle
    /\ InitMessagesIdle
    /\ mainPc = "running"
    /\ cfg = "default"
    /\ loadErr = FALSE
    /\ newAppErr = "none"
    /\ dumpWAV \in BOOLEAN

NextWAV == Next \/ SaveWAVReturn

SpecWAV == InitWAV /\ [][NextWAV]_vars

\* ------------------------------------------------------------- directives

\* The number of fragments a directive is put together from.
MaxFrags == 3

\* The pieces directives are put together from: combo groups (one whose
\* last name and one whose first name modifierMap does not hold), a key
\* suffix, the two separators, a line break, a literal word, the digit 0,
\* and the single characters of the markup.
Fragments ==
    { <<"{", "C", "o", "m", "m", "a", "n", "d", "}">>,
      <<"{", "C", "o", "m", "m", "a", "n", "d", "+", "S", "h", "i", "f", "t", "}">>,
      <<"{", "E", "n", "t", "e", "r", "}">>,
      <<"{", "C", "o", "m", "m", "a", "n", "d", "+", "t", "}">>,
      <<"{", "F", "o", "o", "+", "C", "o", "m", "m", "a", "n", "d", "}">>,
      <<"+", "t">>,
      <<" ">>, <<";">>, <<"\n">>,
      <<"l", "s">>, <<"0">>,
      <<"{">>, <<"}">>, <<"+">> }

\* The outputs of the few-shot examples of defaultConfig.
ReferenceDirectives ==
    { <<"c", "d", " ", "~">>,
      <<"{", "C", "o", "m", "m", "a", "n", "d", "}", "+", "t">>,
      <<"g", "i", "t", " ", "r", "e", "b", "a", "s", "e", " ", "-", "i", " ", "H", "E", "A", "D", "~", "3">>,
      <<"{", "C", "o", "m", "m", "a", "n", "d", "+", "S", "h", "i", "f", "t", "}", "+", "d">>,
      <<"{", "C", "o", "m", "m", "a", "n", "d", "}", "+", "t", "\n", "h", "t", "t", "p", "s", ":", "/", "/", "c", "n", "n", ".", "c", "o", "m", "{", "E", "n", "t", "e", "r", "}">> }

RECURSIVE Concat(_)
Concat(fs) == IF fs = <<>> THEN <<>> ELSE Head(fs) \o Concat(Tail(fs))

\* What the language model may return.
Directives ==
    ReferenceDirectives \cup
    { Concat(fs) : fs \in UNION { [1..n -> Fragments] : n \in 0..MaxFrags } }

\* ------------------------------------------------------------ Go strings

\* text[g], g a Go offset (from 0).
At(t, g) == t[g + 1]

\* text[lo:hi], defined for 0 <= lo <= hi <= len(text).
Slice(t, lo, hi) == SubSeq(t, lo + 1, hi)

\* The least member of a non-empty set of offsets.
Least(S) == CHOOSE k \in S : \A l \in S : k <= l

\* strings.Split(s, "+").
RECURSIVE Split(_)
Split(s) ==
    LET P == {k \in 1..Len(s) : s[k] = "+"}
    IN  IF P = {} THEN <<s>>
        ELSE <<SubSeq(s, 1, Least(P) - 1)>>
                 \o Split(SubSeq(s, Least(P) + 1, Len(s)))

\* ---------------------------------------------------------- keyTapPattern

\* [A-Za-z1-9]
KeyChars ==
    { "A", "B", "C", "D", "E", "F", "G", "H", "I", "J", "K", "L", "M",
      "N", "O", "P", "Q", "R", "S", "T", "U", "V", "W", "X", "Y", "Z",
      "a", "b", "c", "d", "e", "f", "g", "h", "i", "j", "k", "l", "m",
      "n", "o", "p", "q", "r", "s", "t", "u", "v", "w", "x", "y", "z",
      "1", "2", "3", "4", "5", "6", "7", "8", "9" }

NoMatch == <<>>

\* The end of the longest run of KeyChars that starts at offset g.
KeyRunEnd(t, g) ==
    Least({k \in g..Len(t) : k = Len(t) \/ At(t, k) \notin KeyChars})

\* The match of keyTapPattern that starts at offset i, as the six offsets of
\* FindAllStringSubmatchIndex (match[0..5], -1 for a group that took no
\* part), or NoMatch.  Group 1 is a non-empty run of characters other than
\* "}", so it ends at the first "}" after the "{"; the suffix "+key" and
\* the separator are taken whenever they are there (both are greedy).
MatchAt(t, i) ==
    IF At(t, i) # "{" THEN NoMatch
    ELSE
    LET C == {k \in (i + 1)..(Len(t) - 1) : At(t, k) = "}"}
    IN  IF C = {} \/ Least(C) = i + 1 THEN NoMatch
        ELSE
        LET j == Least(C)
            hasKey == /\ j + 2 < Len(t)
                      /\ At(t, j + 1) = "+"
                      /\ At(t, j + 2) \in KeyChars
            q == IF hasKey THEN KeyRunEnd(t, j + 2) ELSE j + 1
            e == IF q < Len(t) /\ At(t, q) \in {" ", ";"} THEN q + 1 ELSE q
        IN  (0 :> i) @@ (1 :> e) @@ (2 :> i + 1) @@ (3 :> j)
              @@ (4 :> IF hasKey THEN j + 2 ELSE -1)
              @@ (5 :> IF hasKey THEN q ELSE -1)

\* keyTapPattern.FindAllStringSubmatchIndex(text, -1), searching from
\* offset from: the leftmost match, then the matches after its end.
RECURSIVE FindAllFrom(_, _)
FindAllFrom(t, from) ==
    LET S == {i \in from..(Len(t) - 1) : MatchAt(t, i) # NoMatch}
    IN  IF S = {} THEN <<>>
        ELSE <<MatchAt(t, Least(S))>>
                 \o FindAllFrom(t, MatchAt(t, Least(S))[1])

FindAllStringSubmatchIndex(t) == FindAllFrom(t, 0)

\* --------------------------------------- extractModifiersAndKeyFromMatch

\* modifierMap: the names it holds, and what it maps them to.
ModifierNames ==
    { <<"C", "o", "m", "m", "a", "n", "d">>, <<"S", "h", "i", "f", "t">>,
      <<"O", "p", "t", "i", "o", "n">>, <<"C", "o", "n", "t", "r", "o", "l">>,
      <<"T", "a", "b">>, <<"E", "n", "t", "e", "r">> }

ModifierMap(name) ==
    CASE name = <<"C", "o", "m", "m", "a", "n", "d">> -> <<"c", "o", "m", "m", "a", "n", "d">>
      [] name = <<"S", "h", "i", "f", "t">> -> <<"s", "h", "i", "f", "t">>
      [] name = <<"O", "p", "t", "i", "o", "n">> -> <<"a", "l", "t">>
      [] name = <<"C", "o", "n", "t", "r", "o", "l">> -> <<"c", "t", "r", "l">>
      [] name = <<"T", "a", "b">> -> <<"t", "a", "b">>
      [] name = <<"E", "n", "t", "e", "r">> -> <<"e", "n", "t", "e", "r">>
      [] OTHER -> <<>>

\* The names of ks that modifierMap holds, mapped, in their order; the
\* others are logged and left out.
RECURSIVE MapModifiers(_)
MapModifiers(ks) ==
    IF ks = <<>> THEN <<>>
    ELSE (IF Head(ks) \in ModifierNames THEN <<ModifierMap(Head(ks))>>
                                         ELSE <<>>)
             \o MapModifiers(Tail(ks))

\* As extractModifiersAndKeyFromMatch, but without the suffix branch: the
\* last name between the braces is always the key.
extractModifiersAndKeyFromMatch_NoSuffix(t, match) ==
    LET modifierKeys == Split(Slice(t, match[2], match[3]))
        last == modifierKeys[Len(modifierKeys)]
    IN  [modifiers |->
             MapModifiers(SubSeq(modifierKeys, 1, Len(modifierKeys) - 1)),
         key |-> ModifierMap(last)]

\* extractModifiersAndKeyFromMatch(text, match): the modifiers and the key.
extractModifiersAndKeyFromMatch(t, match) ==
    LET modifierKeys == Split(Slice(t, match[2], match[3]))
        last == modifierKeys[Len(modifierKeys)]
    IN  IF match[4] # -1
        THEN [modifiers |-> MapModifiers(modifierKeys),
              key |-> Slice(t, match[4], match[5])]
        ELSE [modifiers |->
                  MapModifiers(SubSeq(modifierKeys, 1, Len(modifierKeys) - 1)),
              key |-> ModifierMap(last)]

\* ------------------------------------------------------- the robotgo calls

\* robotgo.TypeStr(str)
TypeStr(str) == [op |-> "TypeStr", str |-> str, key |-> <<>>, mods |-> <<>>]

\* robotgo.KeyTap(key, modifiers...)
KeyTap(key, mods) == [op |-> "KeyTap", str |-> <<>>, key |-> key, mods |-> mods]

\* keyTapWithModifiers: the tap, then the tap of "shift" that undoes the
\* modifiers.
keyTapWithModifiers(mods, key) ==
    <<KeyTap(key, mods), KeyTap(<<"s", "h", "i", "f", "t">>, <<>>)>>

\* --------------------------------------------------------- simulateTyping

\* The end of simulateTyping, with the remainder typed even when it is empty.
TypeRemainder_Always(t, lastIndex, acc) ==
    [ops |-> Append(acc, TypeStr(IF lastIndex < Len(t)
                                   THEN Slice(t, lastIndex, Len(t))
                                   ELSE <<>>)),
     pc |-> "done"]

\* The end of simulateTyping, with the remainder typed before everything
\* else.
TypeRemainder_First(t, lastIndex, acc) ==
    [ops |-> IF lastIndex < Len(t)
               THEN <<TypeStr(Slice(t, lastIndex, Len(t)))>> \o acc
               ELSE acc,
     pc |-> "done"]

\* The end of simulateTyping: the text after the last match is typed if
\* lastIndex < len(text).
TypeRemainder(t, lastIndex, acc) ==
    [ops |-> IF lastIndex < Len(t)
               THEN Append(acc, TypeStr(Slice(t, lastIndex, Len(t))))
               ELSE acc,
     pc |-> "done"]

\* The loop of simulateTyping from its k-th match on, lastIndex and the calls
\* made so far (acc) given.  text[lastIndex:match[0]] with
\* lastIndex > match[0] is a slice-bounds panic: the run-time error ends the
\* goroutine and, not being recovered, the process.
RECURSIVE TypingLoop(_, _, _, _, _)
TypingLoop(t, matches, k, lastIndex, acc) ==
    IF k > Len(matches) THEN TypeRemainder(t, lastIndex, acc)
    ELSE
    LET match == matches[k]
    IN  IF lastIndex # match[0] /\ lastIndex > match[0]
        THEN [ops |-> acc, pc |-> "panic"]
        ELSE
        LET typed == IF lastIndex # match[0]
                       THEN Append(acc, TypeStr(Slice(t, lastIndex, match[0])))
                       ELSE acc
            mk == extractModifiersAndKeyFromMatch(t, match)
        IN  TypingLoop(t, matches, k + 1, match[1] + 1,
                       typed \o keyTapWithModifiers(mk.modifiers, mk.key))

\* simulateTyping(text): the calls it makes and how it ends.
simulateTyping(t) ==
    TypingLoop(t, FindAllStringSubmatchIndex(t), 1, 0, <<>>)

\* handleText calls simulateTyping on the response of the language model.
SimulateTyping ==
    /\ typingPc = "ready"
    /\ ops' = simulateTyping(text).ops
    /\ typingPc' = simulateTyping(text).pc
    /\ UNCHANGED text
    /\ UNCHANGED ctlVars
    /\ UNCHANGED msgVars
    /\ UNCHANGED mainVars

InitTyping ==
    /\ InitCtl
    /\ InitMessagesIdle
    /\ InitRunning
    /\ text \in Directives
    /\ ops = <<>>
    /\ typingPc = "ready"

NextTyping == SimulateTyping

SpecTyping == InitTyping /\ [][NextTyping]_vars

\* ------------------------------------------------- handleText: the messages

\* The names programs are configured under, and the names the frontmost
\* application may have: two that differ in case only, and one that no
\* program is configured under.
ProgramNames == {"iTerm2", "iterm2", "Google Chrome"}

Apps == ProgramNames \cup {"Finder"}

\* The lists of few-shot examples a program may have.
ExampleLists ==
    LET newTab == [Input |-> "new tab", Output |-> "{Command}+t"]
        split == [Input |-> "split horizontally", Output |-> "{Command+Shift}+d"]
    IN  { <<>>, <<newTab>>, <<newTab, split>>, <<split, newTab>> }

\* ProgramFewShotExamples
ProgramSet ==
    [Program : ProgramNames, Examples : ExampleLists]

\* app.cfg.Programs: up to MaxPrograms programs; a name may occur twice.
Configs == UNION { [1..n -> ProgramSet] : n \in 0..MaxPrograms }

\* The non-empty texts Transcribe may return.
Transcripts == {"new tab", "close the window"}

SystemChatMessage(str) == [role |-> "system", Text |-> str]
HumanChatMessage(str) == [role |-> "human", Text |-> str]
AIChatMessage(str) == [role |-> "ai", Text |-> str]

\* fmt.Sprintf(systemPrompt, activeApp): the prompt with the name in it.
SystemPromptFor(app) == <<"Your current active program is", app>>

\* The names of ProgramNames with the letters in lower case.
Fold(name) == IF name = "iTerm2" THEN "iterm2" ELSE name

\* The test of the loop over the programs, without regard to case.
IsActive_FoldCase(prog, app) == Fold(prog.Program) = Fold(app)

\* The test of the loop over the programs: not `prog.Program != activeApp`.
IsActive(prog, app) == prog.Program = app

\* for _, example := range prog.Examples: the input as a human message,
\* then the output as an AI message.
RECURSIVE ExampleMessages(_)
ExampleMessages(examples) ==
    IF examples = <<>> THEN <<>>
    ELSE <<HumanChatMessage(Head(examples).Input),
           AIChatMessage(Head(examples).Output)>>
             \o ExampleMessages(Tail(examples))

\* for _, prog := range app.cfg.Programs: the examples of every program
\* under the name of the active application.
RECURSIVE ProgramMessages(_, _)
ProgramMessages(progs, app) ==
    IF progs = <<>> THEN <<>>
    ELSE (IF IsActive(Head(progs), app)
          THEN ExampleMessages(Head(progs).Examples)
          ELSE <<>>)
             \o ProgramMessages(Tail(progs), app)

\* The messages handleText passes to app.llm.Call.
Messages(progs, app, str) ==
    <<SystemChatMessage(SystemPromptFor(app))>>
        \o ProgramMessages(progs, app)
        \o <<HumanChatMessage(str)>>

\* handleText up to the call of app.llm.Call.
BuildMessages ==
    /\ transcript # ""
    /\ messages = <<>>
    /\ messages' = Messages(cfgPrograms, activeApp, transcript)
    /\ UNCHANGED <<cfgPrograms, activeApp, transcript>>
    /\ UNCHANGED ctlVars
    /\ UNCHANGED typingVars
    /\ UNCHANGED mainVars

InitMessages ==
    /\ InitCtl
    /\ InitTypingIdle
    /\ InitRunning
    /\ cfgPrograms \in Configs
    /\ activeApp \in Apps
    /\ transcript \in Transcripts
    /\ messages = <<>>

NextMessages == BuildMessages

SpecMessages == InitMessages /\ [][NextMessages]_vars

\* -------------------------------------------------------------------- main

\* loadConfig: the file is decoded; or there is none, and defaultConfig is
\* written and returned; or an error is returned, with defaultConfig.  main
\* prints the error and goes on.
LoadConfig ==
    /\ mainPc = "loadConfig"
    /\ \E got \in {"decoded", "created", "error"} :
          /\ cfg' = IF got = "decoded" THEN "file" ELSE "default"
          /\ loadErr' = (got = "error")
    /\ mainPc' = "newApp"
    /\ UNCHANGED <<newAppErr, dumpWAV>>
    /\ UNCHANGED ctlVars
    /\ UNCHANGED typingVars
    /\ UNCHANGED msgVars

\* NewApp with a main that goes on to app.run whatever newApp returned.
NewApp_GoesOn ==
    /\ mainPc = "newApp"
    /\ \E err \in {"none", "logFile", "whisper", "llm"} :
          newAppErr' = err
    /\ mainPc' = "run"
    /\ UNCHANGED <<cfg, loadErr, dumpWAV>>
    /\ UNCHANGED ctlVars
    /\ UNCHANGED typingVars
    /\ UNCHANGED msgVars

\* newApp: the log file is opened, the recognizer and the language-model
\* client are made; the first of these that fails makes newApp return its
\* error, and main exits with status 1.
NewApp ==
    /\ mainPc = "newApp"
    /\ \E err \in {"none", "logFile", "whisper", "llm"} :
          /\ newAppErr' = err
          /\ mainPc' = IF err = "none" THEN "run" ELSE "exit1"
    /\ UNCHANGED <<cfg, loadErr, dumpWAV>>
    /\ UNCHANGED ctlVars
    /\ UNCHANGED typingVars
    /\ UNCHANGED msgVars

\* app.run: go app.runMainLoop(ctx), then runNSApp with its event handler.
RunApp ==
    /\ mainPc = "run"
    /\ mainPc' = "running"
    /\ UNCHANGED <<cfg, loadErr, newAppErr, dumpWAV>>
    /\ UNCHANGED ctlVars
    /\ UNCHANGED typingVars
    /\ UNCHANGED msgVars

InitStartup ==
    /\ InitCtl
    /\ InitTypingIdle
    /\ InitMessagesIdle
    /\ mainPc = "loadConfig"
    /\ cfg = "unset"
    /\ loadErr = FALSE
    /\ newAppErr = "none"
    /\ dumpWAV = FALSE

\* The loop and the event handler run once app.run has started them.
NextStartup ==
    \/ LoadConfig
    \/ NewApp
    \/ RunApp
    \/ mainPc = "running" /\ HotkeyPress
    \/ mainPc = "running" /\ HandlerReceive
    \/ mainPc = "running" /\ HandlerSend
    \/ mainPc = "running" /\ TimerExpire
    \/ mainPc = "running" /\ ToggleOn
    \/ mainPc = "running" /\ ToggleOff
    \/ mainPc = "running" /\ TranscribeReturn
    \/ mainPc = "running" /\ TimeoutCase
    \/ mainPc = "running" /\ TimerSend
    \/ mainPc = "running" /\ Tick
    \/ mainPc = "running" /\ LLMReturn

SpecStartup == InitStartup /\ [][NextStartup]_vars

\* ---------------------------------------------------------------- claims

\* C1: a step that makes the audio buffer longer is taken while Listening,
\* and a step from Idle to Listening leaves the buffer empty, whatever the
\* previous cycle left in it.
C1_BufferDiscipline ==
    [][ /\ (Len(audioBuffer') > Len(audioBuffer)) => (listening /\ listening')
        /\ (~listening /\ listening') => (audioBuffer' = <<>>) ]_vars

\* C1 witness: the loop has just entered Listening for a later cycle; the
\* previous cycle pulled chunks and handed them over, and the buffer is empty.
C1_Witness ==
    /\ listening
    /\ audioBuffer = <<>>
    /\ handoff # <<>>
    /\ pulled > 0

\* No chord is on its way to the loop and none will be pressed.
NoUserToggleToCome ==
    /\ pressed = MaxToggles
    /\ events = 0
    /\ handlerPc = "recv"
    /\ InChan("user") = 0

\* C2: with no chord delivered after the entry into Listening, the timer
\* armed at the entry ends the cycle (Listening leads to Idle); the signal
\* the timer injects is received while Listening and only turns listening
\* off, and every step from Idle to Listening receives a chord's signal, so
\* the loop then stays Idle until the next chord.
C2_TimerEndsCycleOnce ==
    /\ [][ (~listening /\ listening') => (Head(toggleChan) = "user") ]_vars
    /\ [][ (consumed' # consumed /\ Head(toggleChan) = "timer")
              => (listening /\ ~listening') ]_vars
    /\ (listening /\ NoUserToggleToCome) ~> (~listening)

\* C2 witness: a cycle was ended by the signal of the timer, no chord is
\* pending, and the loop is Idle in its select.
C2_Witness ==
    /\ ~listening
    /\ loopPc = "select"
    /\ listeningTimeout = "drained"
    /\ consumed > consumedUser
    /\ NoUserToggleToCome

\* C3: once the timer armed at the entry has expired, a Listening loop
\* reaches Idle, whatever chords are pressed meanwhile.
C3_NeverListensForever ==
    (listening /\ listeningTimeout \in {"ready", "drained"}) ~> (~listening)

\* C4: the send of the timeout case can always complete: the loop is never
\* at that send with the toggle channel full.
C4_TimeoutHandlingCompletes ==
    (loopPc = "timerSend") => (Len(toggleChan) < ToggleCap)

\* C5 as claimed: while the Transcribe of the previous cycle has not
\* returned, a signal in the toggle channel can be received and the loop can
\* enter Listening.
C5_TranscriptionDoesNotBlock ==
    (loopPc = "transcribing" /\ toggleChan # <<>>) => ENABLED ToggleOn

\* C5 as amended: a handleText goroutine that has not finished does not keep
\* the loop from receiving a signal and entering Listening, whereas during
\* Transcribe the loop receives no signal and is never Listening.
C5_DispatchDoesNotBlock ==
    /\ (InFlight # {} /\ loopPc = "select" /\ ~listening /\ toggleChan # <<>>)
          => ENABLED ToggleOn
    /\ (loopPc = "transcribing")
          => (~listening /\ ~ENABLED ToggleOn /\ ~ENABLED ToggleOff)

\* C5 witness: the loop is Listening again while the handleText goroutine
\* of an earlier cycle still waits for the language model.
C5_Witness ==
    /\ listening
    /\ InFlight # {}

\* C6: every signal the hotkey handler sends is eventually received by the
\* loop, and each received signal flips the state once: Listening iff the
\* number of received signals is odd.
C6_NoToggleLost ==
    /\ [](listening <=> (consumed % 2 = 1))
    /\ (InChan("user") > 0) ~> (InChan("user") = 0)

\* C7 as claimed: of the chords pressed during one Transcribe, at most one
\* is honoured by the loop afterwards.
C7_TogglesDoNotQueue ==
    busyHonoured <= 1

\* C7 as amended: no chord is discarded.  The toggle channel holds at most
\* one signal, and every chord pressed is waiting in the events channel,
\* waiting in the handler's blocked send, buffered in the toggle channel, or
\* has been received by the loop (and flipped the state).
C7_TogglesQueue ==
    /\ Len(toggleChan) <= ToggleCap
    /\ pressed = events + (IF handlerPc = "send" THEN 1 ELSE 0)
                   + InChan("user") + consumedUser
    /\ listening <=> (consumed % 2 = 1)

\* C7 witness: two chords pressed during one Transcribe have both been
\* received by the loop.
C7_Witness ==
    busyHonoured >= 2

\* C8: simulateTyping ends normally on every directive: it never ends in a
\* run-time panic, which would end the process and its controller loop.
C8_SynthesisNeverFaults ==
    typingPc # "panic"

\* The texts of the TypeStr calls of os, one after the other.
RECURSIVE TypedText(_)
TypedText(os) ==
    IF os = <<>> THEN <<>>
    ELSE (IF Head(os).op = "TypeStr" THEN Head(os).str ELSE <<>>)
             \o TypedText(Tail(os))

\* The characters of t from offset from on that lie in none of the matches
\* ms (a match covers its group, its key suffix and its one separator).
RECURSIVE OutsideMatches(_, _, _)
OutsideMatches(t, ms, from) ==
    IF ms = <<>> THEN Slice(t, from, Len(t))
    ELSE Slice(t, from, Head(ms)[0]) \o OutsideMatches(t, Tail(ms), Head(ms)[1])

\* C9: when simulateTyping has finished, the typed texts, in order, are
\* exactly the characters of the directive outside the combo-group matches:
\* nothing but the group, its suffix and its one separator is left out.
C9_LiteralsTypedInFull ==
    (typingPc = "done")
        => TypedText(ops) = OutsideMatches(text, FindAllStringSubmatchIndex(text), 0)

\* C10 as claimed: a directive without a combo group, the empty one
\* included, yields exactly one call, TypeStr of the whole directive.
C10_NoGroupOneLiteralAlways ==
    (typingPc = "done" /\ FindAllStringSubmatchIndex(text) = <<>>)
        => ops = <<TypeStr(text)>>

\* C10 as amended: a non-empty directive without a combo group yields
\* exactly one call, TypeStr of the whole directive, and no key tap; the
\* empty directive yields no call at all.
C10_NoGroupOneLiteral ==
    (typingPc = "done" /\ FindAllStringSubmatchIndex(text) = <<>>)
        => ops = IF text = <<>> THEN <<>> ELSE <<TypeStr(text)>>

\* C10 witness: a directive that holds a brace but no combo group has been
\* typed as one literal.
C10_Witness ==
    /\ typingPc = "done"
    /\ FindAllStringSubmatchIndex(text) = <<>>
    /\ \E k \in 1..Len(text) : text[k] = "{"
    /\ ops = <<TypeStr(text)>>

\* The robotgo.KeyTap calls of os, in order.
RECURSIVE Taps(_)
Taps(os) ==
    IF os = <<>> THEN <<>>
    ELSE (IF Head(os).op = "KeyTap" THEN <<Head(os)>> ELSE <<>>)
             \o Taps(Tail(os))

\* The names between the braces of a match.
NamesOf(t, match) == Split(Slice(t, match[2], match[3]))

\* The key a name stands for: robotgo's name of it if modifierMap holds it,
\* the name itself otherwise.
KeyNameOf(name) == IF name \in ModifierNames THEN ModifierMap(name) ELSE name

\* The names of ks that modifierMap holds, in their order, as robotgo names.
RecognizedOf(ks) ==
    LET rec == SelectSeq(ks, LAMBDA n : n \in ModifierNames)
    IN  [i \in 1..Len(rec) |-> ModifierMap(rec[i])]

\* Letters and digits 0-9.
Alnum == KeyChars \cup {"0"}

\* A group is well formed when each of its names is a non-empty run of
\* letters and digits.
WellFormed(names) ==
    \A i \in 1..Len(names) :
        /\ names[i] # <<>>
        /\ \A j \in 1..Len(names[i]) : names[i][j] \in Alnum

AlnumRunEnd(t, g) ==
    Least({k \in g..Len(t) : k = Len(t) \/ At(t, k) \notin Alnum})

\* The key suffix written after the group of a match: the letters and digits
\* that follow "}+", empty when there are none.
WrittenSuffix(t, match) ==
    IF /\ match[3] + 2 < Len(t)
       /\ At(t, match[3] + 1) = "+"
       /\ At(t, match[3] + 2) \in Alnum
    THEN Slice(t, match[3] + 2, AlnumRunEnd(t, match[3] + 2))
    ELSE <<>>

\* C12: for every combo group written with a +key suffix, the key of its
\* press is the suffix and its modifiers are the recognized ones among all
\* the names between the braces.
C12_SuffixIsKey ==
    (typingPc = "done") =>
        \A k \in 1..Len(FindAllStringSubmatchIndex(text)) :
            LET match == FindAllStringSubmatchIndex(text)[k]
                press == Taps(ops)[2 * k - 1]
            IN  (WrittenSuffix(text, match) # <<>>) =>
                    /\ press.key = WrittenSuffix(text, match)
                    /\ press.mods = RecognizedOf(NamesOf(text, match))

\* The extent of a match in the text, its written suffix included.
RECURSIVE GroupChars(_, _, _)
GroupChars(t, ms, k) ==
    IF k > Len(ms) THEN 0
    ELSE (IF WrittenSuffix(t, ms[k]) # <<>>
          THEN AlnumRunEnd(t, ms[k][3] + 2) - ms[k][0]
          ELSE ms[k][1] - ms[k][0])
         + GroupChars(t, ms, k + 1)

\* C13: a suffix of letters and digits 0-9 is captured whole as the key of
\* its match, and neither its characters nor the "+" are typed: no more
\* characters are typed than the text has outside its groups and suffixes.
C13_AlnumSuffixCaptured ==
    (typingPc = "done") =>
        /\ \A k \in 1..Len(FindAllStringSubmatchIndex(text)) :
              LET match == FindAllStringSubmatchIndex(text)[k]
              IN  (WrittenSuffix(text, match) # <<>>) =>
                      /\ match[4] = match[3] + 2
                      /\ match[5] = AlnumRunEnd(text, match[3] + 2)
        /\ Len(TypedText(ops)) + GroupChars(text, FindAllStringSubmatchIndex(text), 1)
               <= Len(text)

\* The key names of the reference presses.
Shift == <<"s", "h", "i", "f", "t">>
Command == <<"c", "o", "m", "m", "a", "n", "d">>

\* C14: the four reference directives give exactly their operation
\* sequences: the literal alone; the press of t with command and the press
\* of shift; the press of d with command and shift and the press of shift;
\* and, for the two-line directive, the press of t with command, the press
\* of shift, the literal of the URL, the press of enter and the press of
\* shift.
C14_ReferenceDirectives ==
    (typingPc # "ready") =>
        /\ typingPc # "panic" \/ text \notin ReferenceDirectives
        /\ (text = <<"c", "d", " ", "~">>) =>
               ops = <<TypeStr(<<"c", "d", " ", "~">>)>>
        /\ (text = <<"{", "C", "o", "m", "m", "a", "n", "d", "}", "+", "t">>) =>
               ops = <<KeyTap(<<"t">>, <<Command>>), KeyTap(Shift, <<>>)>>
        /\ (text = <<"{", "C", "o", "m", "m", "a", "n", "d", "+", "S", "h", "i", "f", "t", "}", "+", "d">>) =>
               ops = <<KeyTap(<<"d">>, <<Command, Shift>>), KeyTap(Shift, <<>>)>>
        /\ (text = <<"{", "C", "o", "m", "m", "a", "n", "d", "}", "+", "t", "\n", "h", "t", "t", "p", "s", ":", "/", "/", "c", "n", "n", ".", "c", "o", "m", "{", "E", "n", "t", "e", "r", "}">>) =>
               ops = <<KeyTap(<<"t">>, <<Command>>), KeyTap(Shift, <<>>),
                       TypeStr(<<"h", "t", "t", "p", "s", ":", "/", "/", "c", "n", "n", ".", "c", "o", "m">>),
                       KeyTap(<<"e", "n", "t", "e", "r">>, <<>>), KeyTap(Shift, <<>>)>>

C14_Witness ==
    /\ typingPc = "done"
    /\ text = <<"{", "C", "o", "m", "m", "a", "n", "d", "}", "+", "t", "\n", "h", "t", "t", "p", "s", ":", "/", "/", "c", "n", "n", ".", "c", "o", "m", "{", "E", "n", "t", "e", "r", "}">>
    /\ Len(ops) = 5

\* The names of a match that extractModifiersAndKeyFromMatch takes as
\* modifiers: all of them with a captured suffix, all but the last without.
ModifierNamesOf(t, match) ==
    IF match[4] # -1 THEN NamesOf(t, match)
    ELSE SubSeq(NamesOf(t, match), 1, Len(NamesOf(t, match)) - 1)

\* C15: when a group has a modifier name that is not recognized, the name is
\* dropped, the press of the group is still emitted with the recognized
\* modifiers in their order, and every later operation of the directive is
\* still emitted: the run ends normally with the presses of all the groups.
C15_UnknownModifierDropped ==
    (typingPc # "ready") =>
        \A k \in 1..Len(FindAllStringSubmatchIndex(text)) :
            LET match == FindAllStringSubmatchIndex(text)[k]
                mods == ModifierNamesOf(text, match)
            IN  (\E i \in 1..Len(mods) : mods[i] \notin ModifierNames) =>
                    /\ typingPc = "done"
                    /\ Len(Taps(ops)) = 2 * Len(FindAllStringSubmatchIndex(text))
                    /\ Taps(ops)[2 * k - 1].mods = RecognizedOf(mods)

\* C15 for the runs that end normally.
C15_UnknownModifierDroppedWhenDone ==
    (typingPc = "done") =>
        \A k \in 1..Len(FindAllStringSubmatchIndex(text)) :
            /\ Len(Taps(ops)) = 2 * Len(FindAllStringSubmatchIndex(text))
            /\ Taps(ops)[2 * k - 1].mods =
                   RecognizedOf(ModifierNamesOf(text, FindAllStringSubmatchIndex(text)[k]))

\* The op at place i of os is the press of a group: a KeyTap that an even
\* number of KeyTaps precede.
PressAt(os, i) ==
    /\ os[i].op = "KeyTap"
    /\ Len(Taps(SubSeq(os, 1, i))) % 2 = 1

\* C17: every combo group of a directive yields exactly two presses, the
\* press of the group and right after it the press of shift with no
\* modifiers.
C17_TwoPressesPerGroup ==
    (typingPc # "ready") =>
        /\ Len(Taps(ops)) = 2 * Len(FindAllStringSubmatchIndex(text))
        /\ \A i \in 1..Len(ops) :
              PressAt(ops, i) => /\ i < Len(ops)
                                 /\ ops[i + 1] = KeyTap(Shift, <<>>)

\* C17 for the runs that end normally.
C17_TwoPressesPerGroupWhenDone ==
    (typingPc = "done") =>
        /\ Len(Taps(ops)) = 2 * Len(FindAllStringSubmatchIndex(text))
        /\ \A i \in 1..Len(ops) :
              PressAt(ops, i) => /\ i < Len(ops)
                                 /\ ops[i + 1] = KeyTap(Shift, <<>>)

\* The ops os have their sources in t from offset from on, one after the
\* other: a literal is a piece of the text at or after the end of the source
\* of the op before it, the k-th press pair is the press of the k-th match,
\* which starts at or after that end, and its tap of shift. taps is the
\* number of KeyTaps before os.
RECURSIVE InTextOrder(_, _, _, _, _)
InTextOrder(t, ms, os, from, taps) ==
    IF os = <<>> THEN TRUE
    ELSE IF Head(os).op = "TypeStr"
    THEN LET str == Head(os).str
             at == {p \in from..(Len(t) - Len(str)) : Slice(t, p, p + Len(str)) = str}
         IN  /\ at # {}
             /\ InTextOrder(t, ms, Tail(os), Least(at) + Len(str), taps)
    ELSE IF taps % 2 = 0
    THEN LET g == (taps \div 2) + 1
         IN  /\ g <= Len(ms)
             /\ ms[g][0] >= from
             /\ Head(os) = KeyTap(extractModifiersAndKeyFromMatch(t, ms[g]).key,
                                  extractModifiersAndKeyFromMatch(t, ms[g]).modifiers)
             /\ InTextOrder(t, ms, Tail(os), ms[g][1], taps + 1)
    ELSE /\ Head(os) = KeyTap(Shift, <<>>)
         /\ InTextOrder(t, ms, Tail(os), from, taps + 1)

\* C16: the operations of a dispatch are in the left-to-right order of the
\* directive text they come from.
C16_OpsInTextOrder ==
    (typingPc # "ready") =>
        InTextOrder(text, FindAllStringSubmatchIndex(text), ops, 0, 0)

C16_Witness ==
    /\ typingPc = "done"
    /\ Len(ops) >= 4
    /\ ops[1].op = "TypeStr"
    /\ ops[2].op = "KeyTap"
    /\ ops[Len(ops)].op = "TypeStr"

\* C18: a cycle whose transcription returned an error or an empty text makes
\* no call of the language model and injects nothing.
C18_NoTextNoDispatch ==
    \A c \in 1..Len(calls) :
        (calls[c].transcribed \in {"err", "empty"}) =>
            /\ calls[c].llm = "none"
            /\ calls[c].typed = 0

C18_Witness ==
    /\ \E c \in 1..Len(calls) : calls[c].transcribed = "err"
    /\ \E c \in 1..Len(calls) : calls[c].transcribed = "empty"
    /\ \E c \in 1..Len(calls) : calls[c].typed = 1

\* C19: a dispatch whose call of the language model returned an error
\* injects nothing.
C19_LLMErrorNoInjection ==
    \A c \in 1..Len(calls) :
        (calls[c].llm = "err") => calls[c].typed = 0

C19_Witness ==
    /\ \E c \in 1..Len(calls) : calls[c].llm = "err"
    /\ \E c \in 1..Len(calls) : calls[c].llm = "ok" /\ calls[c].typed = 1

\* The programs of progs under exactly the name app, in their order.
ProgramsOf(progs, app) == SelectSeq(progs, LAMBDA prog : prog.Program = app)

\* The number of examples of the programs ps.
RECURSIVE ExampleCount(_)
ExampleCount(ps) ==
    IF ps = <<>> THEN 0 ELSE Len(Head(ps).Examples) + ExampleCount(Tail(ps))

\* The n-th example of the programs ps, counted through them in order.
RECURSIVE ExampleAt(_, _)
ExampleAt(ps, n) ==
    IF n <= Len(Head(ps).Examples) THEN Head(ps).Examples[n]
    ELSE ExampleAt(Tail(ps), n - Len(Head(ps).Examples))

\* C20: the messages are one system message that names the active
\* application, then for every example configured under exactly that name,
\* in the configured order, its input as a user turn and its output as an
\* assistant turn, then the transcript as the last user turn; with no
\* program under that name they are the system message and the transcript.
C20_MessageSequence ==
    (messages # <<>>) =>
        LET ps == ProgramsOf(cfgPrograms, activeApp)
            n == ExampleCount(ps)
        IN  /\ Len(messages) = 2 * n + 2
            /\ messages[1] = [role |-> "system", Text |-> SystemPromptFor(activeApp)]
            /\ \A i \in 1..n :
                  /\ messages[2 * i] = [role |-> "human", Text |-> ExampleAt(ps, i).Input]
                  /\ messages[2 * i + 1] = [role |-> "ai", Text |-> ExampleAt(ps, i).Output]
            /\ messages[2 * n + 2] = [role |-> "human", Text |-> transcript]
            /\ (ps = <<>>) => Len(messages) = 2

\* A program with two examples under the active name, and a program with
\* examples under a name that differs from it in case only.
C20_Witness ==
    /\ Len(messages) = 6
    /\ activeApp = "iterm2"
    /\ \E i \in 1..Len(cfgPrograms) : cfgPrograms[i].Program = "iTerm2"
                                      /\ cfgPrograms[i].Examples # <<>>

\* C21: every step from Listening to Idle, and no other step, begins one
\* transcription, that of the buffer of the cycle; a cycle never has more
\* than one handleText goroutine, and has one only for a transcribed text.
C21_OneTranscriptionOneDispatch ==
    [][ /\ (listening /\ ~listening') =>
               /\ Len(calls') = Len(calls) + 1
               /\ handoff' = audioBuffer
               /\ loopPc' = "transcribing"
        /\ ~(listening /\ ~listening') => Len(calls') = Len(calls)
        /\ \A c \in 1..Len(calls') :
               /\ calls'[c].started <= 1
               /\ (calls'[c].started = 1) => calls'[c].transcribed = "text" ]_vars

\* Three cycles have ended: one with a dispatch, two without.
C21_Witness ==
    /\ Len(calls) = 3
    /\ \E c \in 1..3 : calls[c].started = 1
    /\ \E c \in 1..3 : calls[c].started = 0 /\ calls[c].transcribed = "empty"
    /\ loopPc = "select"

\* C22: a handleText goroutine that waits for the language model leaves
\* the wait by the return of its own call only, and is never cut off: not
\* by a signal the loop receives, not by another goroutine; and the loop,
\* Idle in its select with a signal to receive, can enter Listening while
\* goroutines are running.
C22_NoDispatchAborted ==
    /\ [][ \A c \in InFlight :
              (tasks'[c] # "llm") =>
                  /\ calls'[c].llm \in {"ok", "err"}
                  /\ \A d \in InFlight \ {c} : tasks'[d] = "llm" ]_vars
    /\ [](ProcessDead => InFlight = {})
    /\ []( (InFlight # {} /\ loopPc = "select" /\ ~listening /\ toggleChan # <<>>)
               => ENABLED ToggleOn )

\* C22 for the runs in which no injection faults: no goroutine is cut off,
\* and each one ends.
C22_DispatchesRunToCompletion ==
    /\ C22_NoDispatchAborted
    /\ \A c \in 1..MaxToggles :
          (c \in InFlight) ~> (c <= Len(tasks) /\ tasks[c] \in {"typed", "llmErr"})

\* Two handleText goroutines, of two cycles, wait for the language model.
C22_Witness ==
    Cardinality(InFlight) >= 2

\* The last cycle that ended had an error of Transcribe, and no cycle has
\* begun since.
AfterTranscribeError ==
    /\ ~listening
    /\ loopPc # "transcribing"
    /\ Len(calls) > 0
    /\ calls[Len(calls)].transcribed = "err"

\* C23: after an error of Transcribe the loop is Idle in its select, it can
\* receive the next signal, and receiving it makes it Listening with an
\* empty buffer and a newly armed timer.
C23_FreeAfterTranscribeError ==
    /\ [](AfterTranscribeError =>
              /\ loopPc = "select"
              /\ (toggleChan # <<>>) => ENABLED ToggleOn)
    /\ [][ (AfterTranscribeError /\ consumed' # consumed) =>
               /\ listening'
               /\ audioBuffer' = <<>>
               /\ listeningTimeout' = "pending" ]_vars

\* A cycle has begun after the cycle with the error, which had chunks in
\* its buffer.
C23_Witness ==
    /\ listening
    /\ audioBuffer = <<>>
    /\ listeningTimeout = "pending"
    /\ handoff # <<>>
    /\ Len(calls) > 0
    /\ calls[Len(calls)].transcribed = "err"

\* Nothing of the loop or of the event handler has happened.
LoopNotStarted ==
    /\ pressed = 0
    /\ events = 0
    /\ consumed = 0
    /\ ~listening
    /\ listeningTimeout = "nil"
    /\ calls = <<>>

\* C24: when the log file, the recognizer or the language-model client
\* cannot be made, the process exits with an error and the loop is never
\* started; when only the configuration cannot be loaded, the default
\* configuration is used and the process goes on.
C24_StartupFailures ==
    /\ (newAppErr # "none") => (mainPc = "exit1" /\ LoopNotStarted)
    /\ (mainPc \notin {"run", "running"}) => LoopNotStarted
    /\ loadErr => cfg = "default"
    /\ (mainPc = "exit1") => newAppErr # "none"

\* The configuration could not be loaded and the loop runs all the same.
C24_Witness ==
    /\ loadErr
    /\ cfg = "default"
    /\ mainPc = "running"
    /\ listening

\* C25: the step in which the loop receives a signal while Idle ends with
\* the loop Listening, the buffer empty and the timer armed also when
\* app.wa.Start returned an error; the step in which it receives a signal
\* while Listening ends with the loop Idle and the buffer of the cycle given
\* to Transcribe also when app.wa.Stop returned an error.
C25_CaptureFailureDoesNotBlock ==
    [][ /\ (consumed' # consumed /\ waCall'.call = "Start" /\ waCall'.err) =>
               /\ listening'
               /\ audioBuffer' = <<>>
               /\ listeningTimeout' = "pending"
        /\ (consumed' # consumed /\ waCall'.call = "Stop" /\ waCall'.err) =>
               /\ ~listening'
               /\ loopPc' = "transcribing"
               /\ handoff' = audioBuffer
               /\ Len(calls') = Len(calls) + 1
        /\ (consumed' # consumed) => (waCall'.call = IF listening THEN "Stop"
                                                                  ELSE "Start") ]_vars

\* The capture of a later cycle could not be stopped, and Transcribe has
\* the chunks of that cycle.
C25_Witness ==
    /\ waCall = [call |-> "Stop", err |-> TRUE]
    /\ ~listening
    /\ loopPc = "transcribing"
    /\ Len(handoff) = MaxChunks
    /\ Len(calls) >= 2

\* C26: a pass through the default case in which CollectAudioData returns
\* an error changes neither the buffer nor the listening state nor the
\* timer, and leaves the loop at its select.
C26_PullErrorChangesNothing ==
    [][ (waCall' # waCall /\ waCall'.call = "CollectAudioData" /\ waCall'.err) =>
            /\ listening /\ listening'
            /\ audioBuffer' = audioBuffer
            /\ pulled' = pulled
            /\ listeningTimeout' = listeningTimeout
            /\ toggleChan' = toggleChan
            /\ loopPc = "select" /\ loopPc' = "select" ]_vars

\* A pull has failed after one that succeeded; the chunk is still there and
\* the timer still runs.
C26_Witness ==
    /\ waCall = [call |-> "CollectAudioData", err |-> TRUE]
    /\ listening
    /\ audioBuffer # <<>>
    /\ listeningTimeout = "pending"

\* C27: while the loop is Idle, the expiry of the timer and its receipt by
\* the loop change neither the state nor the buffer and send no signal;
\* every entry into Listening arms a timer for the cycle it begins, the
\* timer the loop acts on while Listening is the one armed at the latest
\* entry, and its signal is received in the cycle it was armed for.
C27_StaleTimerHarmless ==
    /\ [][ (~listening /\ ~listening' /\ listeningTimeout' # listeningTimeout) =>
               /\ audioBuffer' = audioBuffer
               /\ toggleChan' = toggleChan
               /\ consumed' = consumed
               /\ loopPc' = loopPc ]_vars
    /\ [][ (~listening /\ listening') =>
               /\ listeningTimeout' = "pending"
               /\ timerCycle' = Len(calls) + 1 ]_vars
    /\ [][ (listening /\ listeningTimeout = "ready" /\ listeningTimeout' = "drained") =>
               timerCycle = Len(calls) + 1 ]_vars
    /\ []( (loopPc = "timerSend" \/ InChan("timer") > 0) =>
               (listening /\ listeningTimeout = "drained"
                          /\ timerCycle = Len(calls) + 1) )

\* A cycle was ended by a chord, its timer expired afterwards and the loop
\* received the expiry while Idle: no signal but the chords' was ever sent.
C27_Witness ==
    /\ ~listening
    /\ loopPc = "select"
    /\ listeningTimeout = "drained"
    /\ Len(calls) >= 1
    /\ consumed = consumedUser
    /\ toggleChan = <<>>

\* C28: the buffer given to Transcribe when a cycle ends is the chunks
\* pulled without error since the entry into Listening that began the
\* cycle, all of them and no other, in the order they were pulled.
C28_HandoffIsTheCycle ==
    [][ (listening /\ ~listening') =>
            handoff' = [i \in 1..(pulled - pulledAtEntry) |-> pulledAtEntry + i] ]_vars

\* The second cycle is given to Transcribe: it has the second chunk only.
C28_Witness ==
    /\ loopPc = "transcribing"
    /\ Len(calls) = 2
    /\ pulledAtEntry = 1
    /\ handoff = <<2>>

\* C29: the loop changes the contents of its buffer only by giving it a new
\* backing array or by appending to an array that it has not handed off,
\* that Transcribe is not reading and that no SaveWAV goroutine is reading;
\* what Transcribe and the SaveWAV goroutines read are arrays handed off.
C29_HandedOffBufferUntouched ==
    /\ [][ (audioBuffer' # audioBuffer) =>
               \/ bufInst' # bufInst
               \/ /\ bufInst # handoffInst
                  /\ bufInst \notin wavReaders
                  /\ loopPc # "transcribing" ]_vars
    /\ [](\A r \in wavReaders : r <= handoffInst)
    /\ [](listening => (bufInst > handoffInst /\ bufInst \notin wavReaders))
    /\ []((loopPc = "transcribing") => (bufInst = handoffInst))

\* The loop has appended to the buffer of a later cycle while a SaveWAV
\* goroutine still reads the buffer of an earlier one.
C29_Witness ==
    /\ listening
    /\ audioBuffer # <<>>
    /\ wavReaders # {}
    /\ handoff # <<>>

====
